---- MODULE Spec2Model ----
(***************************************************************************)
(* Model of the PayrollYieldContract escrow ledger                         *)
(* (payday/contracts/payday-yield/src/lib.rs).                             *)
(*                                                                         *)
(* Every contract entry point is one atomic action: the host runs an       *)
(* invocation to completion and commits its storage writes and token       *)
(* movements together, or (on a trap in the contract or in a contract it   *)
(* calls) commits none of them.                                            *)
(*                                                                         *)
(* The token contract and the DeFindex vault are external.  The token is   *)
(* modelled by its transfer contract (non-negative amount, sufficient      *)
(* balance, else trap).  The vault is modelled by what the ledger reads    *)
(* from it: deposit traps or pulls the authorised amount and returns a     *)
(* share count; withdraw traps or returns a vector of amounts and pays the *)
(* first of them to the caller.  The ledger does not check what the vault  *)
(* returns, so the returned vector ranges over VaultReturns.               *)
(*                                                                         *)
(* extend_ttl only touches the retention of the instance entry, which is   *)
(* not part of the modelled state.  Events are published and never read.   *)
(*                                                                         *)
(* The result of an invocation is an operator of the state it runs in and  *)
(* of its arguments (LockResult, ReleaseResult, ClaimResult, ...): "Ok", a *)
(* contract Error, "AuthFailed" when require_auth rejects the invoker, or  *)
(* "TokenTrap" / "VaultTrap" when a called contract traps.  An invocation  *)
(* whose result is not "Ok" commits nothing.                               *)
(***************************************************************************)
EXTENDS Integers, Sequences, FiniteSets, TLC

\* ------------------------------------------------------------------ bounds
MaxLocks == 2          \* successful locks explored, over all employers
MaxTime == 1           \* last ledger timestamp explored

\* ------------------------------------------------------- program constants
SECS_PER_DAY == 86400
APY_PERCENT == 4
YIELD_DIVISOR == 36500
\* i128 is modelled at a reduced width: I128_BITS-bit two's complement.
I128_BITS == 24
I128_MAX == 2^(I128_BITS - 1) - 1
I128_MIN == -(2^(I128_BITS - 1))

\* ------------------------------------------------------------- identities
Employers == {"e1", "e2"}
Invokers == Employers
Contract == "contract"
SdpWallet == "sdp"
VaultAddrs == {"vaultA"}
TokenAddrs == {"tokenA"}
Accounts == Employers \cup {Contract, SdpWallet} \cup VaultAddrs
SdpTargets == {SdpWallet}
\* release_to_sdp takes any address as sdp_wallet_address: the SDP wallet, the
\* contract's own address, an employer's.
AnyTargets == {SdpWallet, Contract, "e2"}
\* Whoever submits a release_to_sdp invocation: an employer or a third party.
Relayer == "relayer"
ReleaseInvokers == Invokers \cup {Relayer}

\* Amounts a caller passes to lock_payroll.
Amounts == {-1, 0, 1}
InitialBalance == [a \in Accounts |->
                     IF a \in Employers THEN 1
                     ELSE IF a \in VaultAddrs THEN 1 ELSE 0]
PayoutDates == 0 .. MaxTime
BatchIds == 0 .. MaxLocks - 1

VARIABLES
    config,       \* instance storage: DefindexPoolAddress, TokenAddress
    locks,        \* instance storage: PayrollLock(employer, batch_id)
    nextBatchId,  \* instance storage: NextBatchId(employer)
    now,          \* env.ledger().timestamp()
    bal           \* balances of the configured token

vars == <<config, locks, nextBatchId, now, bal>>

\* ----------------------------------------------------------------- helpers
\* Option<T> is a sequence of length 0 or 1.
None == <<>>
Some(x) == <<x>>
unwrap_or(opt, d) == IF opt = <<>> THEN d ELSE opt[1]

InI128(x) == I128_MIN <= x /\ x <= I128_MAX
checked_sub(a, b) == IF InI128(a - b) THEN Some(a - b) ELSE None
checked_mul(a, b) == IF InI128(a * b) THEN Some(a * b) ELSE None
\* i128 division truncates toward zero; the divisor here is positive.
TruncDiv(a, b) == IF a >= 0 THEN a \div b ELSE -((-a) \div b)
checked_div(a, b) == IF b = 0 \/ ~InI128(TruncDiv(a, b)) THEN None
                     ELSE Some(TruncDiv(a, b))

\* Faulty variant: every amount is accepted.
check_nonnegative_amount_AcceptsAll(amount) == "Ok"

check_nonnegative_amount(amount) == IF amount < 0 THEN "InvalidAmount" ELSE "Ok"

\* storage().instance().has / get
HasLock(employer, batch_id) == <<employer, batch_id>> \in DOMAIN locks
GetLock(employer, batch_id) == locks[<<employer, batch_id>>]
GetNextBatchId(employer) ==
    IF employer \in DOMAIN nextBatchId THEN nextBatchId[employer] ELSE 0
Initialized == "DefindexPoolAddress" \in DOMAIN config
HasToken == "TokenAddress" \in DOMAIN config

\* Token contract: transfer(from, to, amount).
TransferOk(b, from, amount) == amount >= 0 /\ b[from] >= amount
Transfer(b, from, to, amount) ==
    [[b EXCEPT ![from] = @ - amount] EXCEPT ![to] = @ + amount]

\* What the vault may answer to withdraw and to deposit.
VaultReturns == {<<>>, <<2>>, <<I128_MIN>>}
WithdrawOutcomes == {[trap |-> TRUE, amounts |-> <<>>]} \cup
                    {[trap |-> FALSE, amounts |-> w] : w \in VaultReturns}
DepositOutcomes(amount) == {[trap |-> TRUE, shares |-> 0],
                            [trap |-> FALSE, shares |-> amount]}

\* -------------------------------------------------------------------- Init
Init ==
    /\ config = <<>>
    /\ locks = <<>>
    /\ nextBatchId = <<>>
    /\ now = 0
    /\ bal = InitialBalance

\* ----------------------------------------------------------------- actions
\* The ledger clock advances.
Tick ==
    /\ now < MaxTime
    /\ now' = now + 1
    /\ UNCHANGED <<config, locks, nextBatchId, bal>>

\* ---- initialize
InitializeResult == IF Initialized THEN "AlreadyInitialized" ELSE "Ok"

\* The writes initialize has made when it returns.
InitializeEffects ==
    IF InitializeResult # "Ok" THEN {}
    ELSE {"set DefindexPoolAddress", "set TokenAddress"}

\* Faulty variant: only the token address is stored.
initialize_TokenOnly(defindex_pool, token) ==
    IF "TokenAddress" \in DOMAIN config
    THEN UNCHANGED vars
    ELSE /\ config' = [k \in {"TokenAddress"} |-> token]
         /\ UNCHANGED <<locks, nextBatchId, now, bal>>

initialize(defindex_pool, token) ==
    IF InitializeResult # "Ok"
    THEN UNCHANGED vars
    ELSE /\ config' = [k \in {"DefindexPoolAddress", "TokenAddress"} |->
                          IF k = "DefindexPoolAddress" THEN defindex_pool ELSE token]
         /\ UNCHANGED <<locks, nextBatchId, now, bal>>

\* ---- lock_payroll
\* The record lock_payroll writes.
NewLock(employer, total_amount, vault_shares, payout_date) ==
    [employer |-> employer,
     total_amount |-> total_amount,
     vault_shares |-> vault_shares,
     lock_date |-> now,
     payout_date |-> payout_date,
     yield_earned |-> 0,
     funds_released |-> FALSE,
     yield_claimed |-> FALSE]

\* Faulty variant: the stored counter is ignored.
LockBatchId_Zero(employer) == 0

\* The batch id lock_payroll reads for the new record, and returns.
LockBatchId(employer) == GetNextBatchId(employer)

\* Faulty variant: the counter skips a value.
BumpedBatchId_Skip(batch_id) == batch_id + 2

\* The counter value lock_payroll writes back.
BumpedBatchId(batch_id) == batch_id + 1

\* Faulty variant: a payout date equal to the current time is accepted.
LockGuard_PayoutNotBefore(invoker, employer, total_amount, payout_date) ==
    IF invoker # employer THEN "AuthFailed"
    ELSE IF check_nonnegative_amount(total_amount) # "Ok" THEN "InvalidAmount"
    ELSE IF payout_date < now THEN "InvalidPayoutDate"
    ELSE IF ~HasToken THEN "NotInitialized"
    ELSE "Ok"

\* Faulty variant: the payout date is checked before the amount.
LockGuard_DateFirst(invoker, employer, total_amount, payout_date) ==
    IF invoker # employer THEN "AuthFailed"
    ELSE IF payout_date <= now THEN "InvalidPayoutDate"
    ELSE IF check_nonnegative_amount(total_amount) # "Ok" THEN "InvalidAmount"
    ELSE IF ~HasToken THEN "NotInitialized"
    ELSE "Ok"

\* The guards of lock_payroll, in the order of the code.
LockGuard(invoker, employer, total_amount, payout_date) ==
    IF invoker # employer THEN "AuthFailed"
    ELSE IF check_nonnegative_amount(total_amount) # "Ok" THEN "InvalidAmount"
    ELSE IF payout_date <= now THEN "InvalidPayoutDate"
    ELSE IF ~HasToken THEN "NotInitialized"
    ELSE "Ok"

\* deposit: what the vault's deposit does (trap, or return a share count).
LockResult(invoker, employer, total_amount, payout_date, deposit) ==
    LET guard == LockGuard(invoker, employer, total_amount, payout_date) IN
    IF guard # "Ok" THEN guard
    ELSE IF ~TransferOk(bal, employer, total_amount) THEN "TokenTrap"
    ELSE IF ~Initialized THEN "NotInitialized"
    ELSE IF deposit.trap THEN "VaultTrap"
    ELSE "Ok"

\* The transfers and writes lock_payroll has made, in the order of the code,
\* when it returns or traps.
LockEffects(invoker, employer, total_amount, payout_date, deposit) ==
    IF LockGuard(invoker, employer, total_amount, payout_date) # "Ok" THEN {}
    ELSE IF ~TransferOk(bal, employer, total_amount) THEN {}
    ELSE IF ~Initialized \/ deposit.trap THEN {"transfer employer to contract"}
    ELSE {"transfer employer to contract", "vault deposit",
          "set PayrollLock", "set NextBatchId"}

\* Faulty variant: when the vault's deposit fails, the employer's transfer to
\* the contract stays committed although no record is written.
lock_payroll_KeepsTransferOnTrap(invoker, employer, total_amount, payout_date, deposit) ==
    IF LockResult(invoker, employer, total_amount, payout_date, deposit) = "VaultTrap"
    THEN /\ bal' = Transfer(bal, employer, Contract, total_amount)
         /\ UNCHANGED <<config, locks, nextBatchId, now>>
    ELSE IF LockResult(invoker, employer, total_amount, payout_date, deposit) # "Ok"
    THEN UNCHANGED vars
    ELSE LET batch_id == LockBatchId(employer)
             vault == config["DefindexPoolAddress"]
             b1 == Transfer(bal, employer, Contract, total_amount)
             key == <<employer, batch_id>>
             lock == NewLock(employer, total_amount, deposit.shares, payout_date)
         IN  /\ Cardinality(DOMAIN locks) < MaxLocks
             /\ bal' = Transfer(b1, Contract, vault, total_amount)
             /\ locks' = [k \in DOMAIN locks \cup {key} |->
                             IF k = key THEN lock ELSE locks[k]]
             /\ nextBatchId' = [e \in DOMAIN nextBatchId \cup {employer} |->
                                   IF e = employer THEN BumpedBatchId(batch_id)
                                   ELSE nextBatchId[e]]
             /\ UNCHANGED <<config, now>>

lock_payroll(invoker, employer, total_amount, payout_date, deposit) ==
    IF LockResult(invoker, employer, total_amount, payout_date, deposit) # "Ok"
    THEN UNCHANGED vars
    ELSE LET batch_id == LockBatchId(employer)
             vault == config["DefindexPoolAddress"]
             b1 == Transfer(bal, employer, Contract, total_amount)
             key == <<employer, batch_id>>
             lock == NewLock(employer, total_amount, deposit.shares, payout_date)
         IN  /\ Cardinality(DOMAIN locks) < MaxLocks
             /\ bal' = Transfer(b1, Contract, vault, total_amount)
             /\ locks' = [k \in DOMAIN locks \cup {key} |->
                             IF k = key THEN lock ELSE locks[k]]
             /\ nextBatchId' = [e \in DOMAIN nextBatchId \cup {employer} |->
                                   IF e = employer THEN BumpedBatchId(batch_id)
                                   ELSE nextBatchId[e]]
             /\ UNCHANGED <<config, now>>

\* ---- release_to_sdp
\* Faulty variant: the stored yield is one more than the vault paid above the
\* principal.
ReleaseYield_Overstated(withdrawn_amounts, total_amount) ==
    unwrap_or(checked_sub(unwrap_or(withdrawn_amounts, 0), total_amount), 0) + 1

\* yield_earned as release_to_sdp computes it from the vault's answer.
ReleaseYield(withdrawn_amounts, total_amount) ==
    LET total_withdrawn == unwrap_or(withdrawn_amounts, 0)
    IN  unwrap_or(checked_sub(total_withdrawn, total_amount), 0)

\* Faulty variant: the funds_released guard is missing.
ReleaseGuard_NoReleasedCheck(employer, batch_id) ==
    IF ~HasLock(employer, batch_id) THEN "NotInitialized"
    ELSE IF now < GetLock(employer, batch_id).payout_date THEN "PayoutDateNotReached"
    ELSE IF ~HasToken \/ ~Initialized THEN "NotInitialized"
    ELSE "Ok"

\* Faulty variant: the payout date guard is missing.
ReleaseGuard_NoDateCheck(employer, batch_id) ==
    IF ~HasLock(employer, batch_id) THEN "NotInitialized"
    ELSE IF GetLock(employer, batch_id).funds_released THEN "AlreadyReleased"
    ELSE IF ~HasToken \/ ~Initialized THEN "NotInitialized"
    ELSE "Ok"

\* The guards of release_to_sdp, in the order of the code.
ReleaseGuard(employer, batch_id) ==
    IF ~HasLock(employer, batch_id) THEN "NotInitialized"
    ELSE IF now < GetLock(employer, batch_id).payout_date THEN "PayoutDateNotReached"
    ELSE IF GetLock(employer, batch_id).funds_released THEN "AlreadyReleased"
    ELSE IF ~HasToken \/ ~Initialized THEN "NotInitialized"
    ELSE "Ok"

\* What the vault pays to the ledger on withdraw: the first amount it returns.
VaultPays(withdrawn_amounts) ==
    IF unwrap_or(withdrawn_amounts, 0) > 0 THEN unwrap_or(withdrawn_amounts, 0) ELSE 0

\* withdraw: what the vault's withdraw does (trap, or return a vector of amounts).
ReleaseResult(employer, batch_id, withdraw) ==
    LET guard == ReleaseGuard(employer, batch_id) IN
    IF guard # "Ok" THEN guard
    ELSE LET lock == GetLock(employer, batch_id)
             vault == config["DefindexPoolAddress"]
             pays == VaultPays(withdraw.amounts)
         IN  IF withdraw.trap \/ ~TransferOk(bal, vault, pays) THEN "VaultTrap"
             ELSE IF ~TransferOk(Transfer(bal, vault, Contract, pays), Contract,
                                 lock.total_amount)
             THEN "TokenTrap"
             ELSE "Ok"

\* The transfers and writes release_to_sdp has made, in the order of the code,
\* when it returns or traps.
ReleaseEffects(employer, batch_id, withdraw) ==
    IF ReleaseGuard(employer, batch_id) # "Ok" THEN {}
    ELSE IF ReleaseResult(employer, batch_id, withdraw) = "VaultTrap" THEN {}
    ELSE IF ReleaseResult(employer, batch_id, withdraw) = "TokenTrap"
    THEN {"vault withdraw"}
    ELSE {"vault withdraw", "transfer contract to sdp", "set PayrollLock"}

\* The record release_to_sdp writes back.
ReleasedLock(lock, yield_earned) ==
    [lock EXCEPT !.yield_earned = yield_earned, !.funds_released = TRUE]

\* The value release_to_sdp returns on success.
ReleaseReturn(employer, batch_id, withdraw) ==
    ReleaseYield(withdraw.amounts, GetLock(employer, batch_id).total_amount)

\* Faulty variant: release_to_sdp requires the employer's authorisation.
ReleaseAuthorized_EmployerOnly(invoker, employer) == invoker = employer

\* release_to_sdp calls no require_auth: every invoker passes.
ReleaseAuthorized(invoker, employer) == TRUE

\* release_to_sdp has no require_auth: whoever invokes it, it runs the same.
release_to_sdp(employer, batch_id, sdp_wallet_address, withdraw) ==
    IF ReleaseResult(employer, batch_id, withdraw) # "Ok"
    THEN UNCHANGED vars
    ELSE LET lock == GetLock(employer, batch_id)
             vault == config["DefindexPoolAddress"]
             b1 == Transfer(bal, vault, Contract, VaultPays(withdraw.amounts))
             yield_earned == ReleaseYield(withdraw.amounts, lock.total_amount)
         IN  /\ bal' = Transfer(b1, Contract, sdp_wallet_address, lock.total_amount)
             /\ locks' = [locks EXCEPT ![<<employer, batch_id>>] =
                             ReleasedLock(lock, yield_earned)]
             /\ UNCHANGED <<config, nextBatchId, now>>

\* ---- claim_yield
\* Faulty variant: the funds_released guard is missing.
ClaimGuard_NoReleasedCheck(invoker, employer, batch_id) ==
    IF invoker # employer THEN "AuthFailed"
    ELSE IF ~HasLock(employer, batch_id) THEN "NotInitialized"
    ELSE IF GetLock(employer, batch_id).employer # employer THEN "Unauthorized"
    ELSE IF GetLock(employer, batch_id).yield_claimed THEN "AlreadyClaimed"
    ELSE IF ~HasToken THEN "NotInitialized"
    ELSE "Ok"

\* Faulty variant: the yield_claimed guard is missing.
ClaimGuard_NoClaimedCheck(invoker, employer, batch_id) ==
    IF invoker # employer THEN "AuthFailed"
    ELSE IF ~HasLock(employer, batch_id) THEN "NotInitialized"
    ELSE IF GetLock(employer, batch_id).employer # employer THEN "Unauthorized"
    ELSE IF ~GetLock(employer, batch_id).funds_released THEN "NotYetReleased"
    ELSE IF ~HasToken THEN "NotInitialized"
    ELSE "Ok"

\* Faulty variant: an unreleased record is reported as AlreadyReleased.
ClaimGuard_ReportsAlreadyReleased(invoker, employer, batch_id) ==
    IF invoker # employer THEN "AuthFailed"
    ELSE IF ~HasLock(employer, batch_id) THEN "NotInitialized"
    ELSE IF GetLock(employer, batch_id).employer # employer THEN "Unauthorized"
    ELSE IF ~GetLock(employer, batch_id).funds_released THEN "AlreadyReleased"
    ELSE IF GetLock(employer, batch_id).yield_claimed THEN "AlreadyClaimed"
    ELSE IF ~HasToken THEN "NotInitialized"
    ELSE "Ok"

\* The guards of claim_yield, in the order of the code.
ClaimGuard(invoker, employer, batch_id) ==
    IF invoker # employer THEN "AuthFailed"
    ELSE IF ~HasLock(employer, batch_id) THEN "NotInitialized"
    ELSE IF GetLock(employer, batch_id).employer # employer THEN "Unauthorized"
    ELSE IF ~GetLock(employer, batch_id).funds_released THEN "NotYetReleased"
    ELSE IF GetLock(employer, batch_id).yield_claimed THEN "AlreadyClaimed"
    ELSE IF ~HasToken THEN "NotInitialized"
    ELSE "Ok"

\* Faulty variant: the employer is paid a 30% share of the yield.
EmployerShare_Split30(lock) == (lock.yield_earned * 30) \div 100

\* The amount claim_yield pays to the employer, and returns.
EmployerShare(lock) == lock.yield_earned

ClaimResult(invoker, employer, batch_id) ==
    LET guard == ClaimGuard(invoker, employer, batch_id) IN
    IF guard # "Ok" THEN guard
    ELSE IF ~TransferOk(bal, Contract, EmployerShare(GetLock(employer, batch_id)))
    THEN "TokenTrap"
    ELSE "Ok"

\* The transfers and writes claim_yield has made, in the order of the code,
\* when it returns or traps.
ClaimEffects(invoker, employer, batch_id) ==
    IF ClaimResult(invoker, employer, batch_id) # "Ok" THEN {}
    ELSE {"transfer contract to employer", "set PayrollLock"}

\* Faulty variant: claiming resets the stored yield.
ClaimedLock_ZeroesYield(lock) ==
    [lock EXCEPT !.yield_claimed = TRUE, !.yield_earned = 0]

\* Faulty variant: claiming clears funds_released.
ClaimedLock_ClearsReleased(lock) ==
    [lock EXCEPT !.yield_claimed = TRUE, !.funds_released = FALSE]

\* The record claim_yield writes back.
ClaimedLock(lock) == [lock EXCEPT !.yield_claimed = TRUE]

claim_yield(invoker, employer, batch_id) ==
    IF ClaimResult(invoker, employer, batch_id) # "Ok"
    THEN UNCHANGED vars
    ELSE LET lock == GetLock(employer, batch_id) IN
         /\ bal' = Transfer(bal, Contract, employer, EmployerShare(lock))
         /\ locks' = [locks EXCEPT ![<<employer, batch_id>>] = ClaimedLock(lock)]
         /\ UNCHANGED <<config, nextBatchId, now>>

\* ---- get_status
StatusResult(employer, batch_id) ==
    IF HasLock(employer, batch_id) THEN "Ok" ELSE "NotInitialized"

\* The record get_status returns when the result is "Ok".
StatusReturn(employer, batch_id) == GetLock(employer, batch_id)

get_status(employer, batch_id) == UNCHANGED vars

\* ---- calculate_current_yield
\* The simple-interest projection of calculate_current_yield.
CurrentYield(lock) ==
    LET days_locked == (now - lock.lock_date) \div SECS_PER_DAY
        times4 == checked_mul(lock.total_amount, APY_PERCENT)
        timesDays == IF times4 = None THEN None
                     ELSE checked_mul(times4[1], days_locked)
    IN  IF timesDays = None THEN None ELSE checked_div(timesDays[1], YIELD_DIVISOR)

CurrentYieldResult(employer, batch_id) ==
    IF ~HasLock(employer, batch_id) THEN "NotInitialized"
    ELSE IF CurrentYield(GetLock(employer, batch_id)) = None THEN "InsufficientFunds"
    ELSE "Ok"

calculate_current_yield(employer, batch_id) == UNCHANGED vars

\* ---------------------------------------------------------- specification
Initialize ==
    \E v \in VaultAddrs, t \in TokenAddrs : initialize(v, t)

LockPayroll ==
    \E invoker \in Invokers, employer \in Employers, amount \in Amounts,
       payout_date \in PayoutDates :
        \E deposit \in DepositOutcomes(amount) :
            lock_payroll(invoker, employer, amount, payout_date, deposit)

ReleaseToSdp ==
    \E employer \in Employers, batch_id \in BatchIds,
       sdp \in SdpTargets, withdraw \in WithdrawOutcomes :
        /\ \E invoker \in ReleaseInvokers : ReleaseAuthorized(invoker, employer)
        /\ release_to_sdp(employer, batch_id, sdp, withdraw)

ClaimYield ==
    \E invoker \in Invokers, employer \in Employers, batch_id \in BatchIds :
        claim_yield(invoker, employer, batch_id)

GetStatus ==
    \E employer \in Employers, batch_id \in BatchIds : get_status(employer, batch_id)

CalculateCurrentYield ==
    \E employer \in Employers, batch_id \in BatchIds :
        calculate_current_yield(employer, batch_id)

Next ==
    \/ Tick
    \/ Initialize
    \/ LockPayroll
    \/ ReleaseToSdp
    \/ ClaimYield
    \/ GetStatus
    \/ CalculateCurrentYield

Spec == Init /\ [][Next]_vars

\* The same ledger with one employer locking and release_to_sdp paying to any
\* address: the SDP wallet, the contract's own, the other employer's.
Payer == "e1"

LockPayrollOfPayer ==
    \E invoker \in Invokers, amount \in Amounts, payout_date \in PayoutDates :
        \E deposit \in DepositOutcomes(amount) :
            lock_payroll(invoker, Payer, amount, payout_date, deposit)

ReleaseToAny ==
    \E employer \in Employers, batch_id \in BatchIds,
       sdp \in AnyTargets, withdraw \in WithdrawOutcomes :
        /\ \E invoker \in ReleaseInvokers : ReleaseAuthorized(invoker, employer)
        /\ release_to_sdp(employer, batch_id, sdp, withdraw)

NextAnyTarget ==
    \/ Tick
    \/ Initialize
    \/ LockPayrollOfPayer
    \/ ReleaseToAny
    \/ ClaimYield
    \/ GetStatus
    \/ CalculateCurrentYield

SpecAnyTarget == Init /\ [][NextAnyTarget]_vars

\* The same ledger with a vault that keeps to its interface: deposit pulls
\* exactly the amount (as in lock_payroll above), and withdraw, asked for at
\* least total_amount (min_amounts_out), fails or returns the amount it pays to
\* the contract: total_amount plus a yield.  The vault pays a yield out of
\* what it holds above the principal of the records not yet withdrawn, so it
\* can always pay back a principal.
VaultYields == {0, 1}
\* The addresses a release pays to here: the SDP wallet, the contract's own.
HonestTargets == {SdpWallet, Contract}

RECURSIVE SumTotalAmount(_)
SumTotalAmount(ks) ==
    IF ks = {} THEN 0
    ELSE LET k == CHOOSE x \in ks : TRUE
         IN  locks[k].total_amount + SumTotalAmount(ks \ {k})

\* The principal deposited in the vault and not yet withdrawn.
VaultOwes == SumTotalAmount({k \in DOMAIN locks : ~locks[k].funds_released})

HonestYields ==
    {y \in VaultYields :
        y = 0 \/ (Initialized /\ bal[config["DefindexPoolAddress"]] >= VaultOwes + y)}

HonestWithdrawOutcomes(total_amount) ==
    {[trap |-> TRUE, amounts |-> <<>>]} \cup
    {[trap |-> FALSE, amounts |-> <<total_amount + y>>] : y \in HonestYields}

ReleaseFromHonestVault ==
    \E employer \in Employers, batch_id \in BatchIds, sdp \in HonestTargets :
        \E withdraw \in HonestWithdrawOutcomes(
                            IF HasLock(employer, batch_id)
                            THEN GetLock(employer, batch_id).total_amount ELSE 0) :
            /\ \E invoker \in ReleaseInvokers : ReleaseAuthorized(invoker, employer)
            /\ release_to_sdp(employer, batch_id, sdp, withdraw)

NextHonestVault ==
    \/ Tick
    \/ Initialize
    \/ LockPayroll
    \/ ReleaseFromHonestVault
    \/ ClaimYield
    \/ GetStatus
    \/ CalculateCurrentYield

SpecHonestVault == Init /\ [][NextHonestVault]_vars

\* The calls that take effect, as they get scheduled.  A call that fails
\* commits nothing, so it is a stuttering step and needs no action of its own.
\* A record's release_to_sdp is submitted by anyone, its claim_yield by its
\* employer, a lock_payroll by the employer it debits.  One employer locks,
\* any number of batches.
LockOf(employer) ==
    \E amount \in Amounts, payout_date \in PayoutDates :
        \E deposit \in DepositOutcomes(amount) :
            /\ LockResult(employer, employer, amount, payout_date, deposit) = "Ok"
            /\ lock_payroll(employer, employer, amount, payout_date, deposit)

ReleaseOf(employer, batch_id) ==
    /\ HasLock(employer, batch_id)
    /\ \E sdp \in HonestTargets :
          \E withdraw \in HonestWithdrawOutcomes(
                              GetLock(employer, batch_id).total_amount) :
              /\ ReleaseResult(employer, batch_id, withdraw) = "Ok"
              /\ release_to_sdp(employer, batch_id, sdp, withdraw)

ClaimOf(employer, batch_id) ==
    /\ ClaimResult(employer, employer, batch_id) = "Ok"
    /\ claim_yield(employer, employer, batch_id)

LockScheduled == LockOf(Payer)

ReleaseScheduled ==
    \E employer \in Employers, batch_id \in BatchIds : ReleaseOf(employer, batch_id)

ClaimScheduled ==
    \E employer \in Employers, batch_id \in BatchIds : ClaimOf(employer, batch_id)

NextLive ==
    \/ Tick
    \/ Initialize
    \/ LockScheduled
    \/ ReleaseScheduled
    \/ ClaimScheduled
    \/ GetStatus
    \/ CalculateCurrentYield

\* The ledger clock keeps advancing, and a release_to_sdp or claim_yield that
\* stays possible is eventually submitted and executed.
Fairness ==
    /\ WF_vars(Tick)
    /\ \A batch_id \in BatchIds :
          /\ WF_vars(ReleaseOf(Payer, batch_id))
          /\ WF_vars(ClaimOf(Payer, batch_id))

SpecLive == Init /\ [][NextLive]_vars /\ Fairness

\* ------------------------------------------------- the frontend variant
\* frontend/contracts/payday-yield/src/lib.rs is the variant without vault
\* integration.  It keeps one PayrollLock for the whole contract (the key has
\* no employer and no batch id), takes the token address as an argument of
\* every call, computes yield_earned in release_to_sdp with the simple
\* interest formula in unchecked i128 arithmetic, and pays the employer 30% of
\* it.  It is modelled on the same variables: config holds BlendPoolAddress,
\* locks holds at most the key "PayrollLock", nextBatchId stays empty, and bal
\* maps each token to its balances.
FE_SHARE_PERCENT == 30
FE_SHARE_DIVISOR == 100
MaxDays == 466         \* last ledger day explored in the frontend variant

BlendPools == {"poolA", "poolB"}
FeTokens == {"tokenA", "tokenB"}
FeAmounts == {-1, 0, 1000}
\* Payout dates passed to lock_payroll: now, and 100 days from now.
FePayoutOffsets == {0, 100 * SECS_PER_DAY}
\* The clock advances by 100 and a half days, or by 365 days.
ClockJumps == {100 * SECS_PER_DAY + SECS_PER_DAY \div 2, 365 * SECS_PER_DAY}
Donor == "e2"
DonorFunds == 40
FeInitialBalance ==
    [t \in FeTokens |-> [a \in Accounts |->
        IF a = "e1" /\ t = "tokenA" THEN 1000
        ELSE IF a = Donor THEN DonorFunds ELSE 0]]

FeKey == "PayrollLock"
FeHasLock == FeKey \in DOMAIN locks
FeGetLock == locks[FeKey]

\* i128 arithmetic with the plain operators: on overflow the build either
\* panics (None) or wraps, depending on its overflow-checks setting.
WrapI128(x) == ((x - I128_MIN) % (2^I128_BITS)) + I128_MIN
unchecked_mul(a, b) ==
    IF InI128(a * b) THEN {Some(a * b)} ELSE {None, Some(WrapI128(a * b))}

FeInit ==
    /\ config = <<>>
    /\ locks = <<>>
    /\ nextBatchId = <<>>
    /\ now = 0
    /\ bal = FeInitialBalance

FeTick ==
    \E jump \in ClockJumps :
        /\ now + jump <= MaxDays * SECS_PER_DAY
        /\ now' = now + jump
        /\ UNCHANGED <<config, locks, nextBatchId, bal>>

\* Anyone may send tokens to the contract's address.
FeDonate ==
    \E t \in FeTokens :
        /\ TransferOk(bal[t], Donor, DonorFunds)
        /\ bal' = [bal EXCEPT ![t] = Transfer(@, Donor, Contract, DonorFunds)]
        /\ UNCHANGED <<config, locks, nextBatchId, now>>

\* ---- initialize (frontend): no guard, no result
FeInitializeResult == "Ok"

fe_initialize(blend_pool) ==
    /\ config' = [k \in {"BlendPoolAddress"} |-> blend_pool]
    /\ UNCHANGED <<locks, nextBatchId, now, bal>>

\* ---- lock_payroll (frontend)
FeNewLock(employer, total_amount, payout_date) ==
    [employer |-> employer,
     total_amount |-> total_amount,
     lock_date |-> now,
     payout_date |-> payout_date,
     yield_earned |-> 0,
     funds_released |-> FALSE,
     yield_claimed |-> FALSE]

FeLockGuard(invoker, employer, payout_date) ==
    IF invoker # employer THEN "AuthFailed"
    ELSE IF FeHasLock THEN "AlreadyInitialized"
    ELSE IF payout_date <= now THEN "PayoutDateNotReached"
    ELSE "Ok"

FeLockResult(invoker, employer, token, total_amount, payout_date) ==
    LET guard == FeLockGuard(invoker, employer, payout_date) IN
    IF guard # "Ok" THEN guard
    ELSE IF ~TransferOk(bal[token], employer, total_amount) THEN "TokenTrap"
    ELSE "Ok"

fe_lock_payroll(invoker, employer, token, total_amount, payout_date) ==
    IF FeLockResult(invoker, employer, token, total_amount, payout_date) # "Ok"
    THEN UNCHANGED vars
    ELSE /\ bal' = [bal EXCEPT ![token] =
                        Transfer(@, employer, Contract, total_amount)]
         /\ locks' = [k \in {FeKey} |->
                         FeNewLock(employer, total_amount, payout_date)]
         /\ UNCHANGED <<config, nextBatchId, now>>

\* ---- release_to_sdp (frontend)
\* The outcomes of the yield computation of release_to_sdp.
FeReleaseYields(lock) ==
    LET days_locked == (now - lock.lock_date) \div SECS_PER_DAY
        times4 == unchecked_mul(lock.total_amount, APY_PERCENT)
        timesDays == UNION {IF m = None THEN {None}
                            ELSE unchecked_mul(m[1], days_locked) : m \in times4}
    IN  {IF m = None THEN None ELSE Some(TruncDiv(m[1], YIELD_DIVISOR)) :
            m \in timesDays}

FeReleaseGuard ==
    IF ~FeHasLock THEN "NotInitialized"
    ELSE IF now < FeGetLock.payout_date THEN "PayoutDateNotReached"
    ELSE IF FeGetLock.funds_released THEN "AlreadyReleased"
    ELSE "Ok"

\* yield: one outcome of the yield computation (None when it panics).
FeReleaseResult(token, yield) ==
    IF FeReleaseGuard # "Ok" THEN FeReleaseGuard
    ELSE IF yield = None THEN "ArithmeticTrap"
    ELSE IF ~TransferOk(bal[token], Contract, FeGetLock.total_amount)
    THEN "TokenTrap"
    ELSE "Ok"

fe_release_to_sdp(sdp_address, token, yield) ==
    IF FeReleaseResult(token, yield) # "Ok"
    THEN UNCHANGED vars
    ELSE /\ bal' = [bal EXCEPT ![token] =
                        Transfer(@, Contract, sdp_address, FeGetLock.total_amount)]
         /\ locks' = [locks EXCEPT ![FeKey] =
                         [@ EXCEPT !.yield_earned = yield[1],
                                   !.funds_released = TRUE]]
         /\ UNCHANGED <<config, nextBatchId, now>>

\* ---- claim_yield (frontend)
FeClaimGuard(invoker, employer) ==
    IF invoker # employer THEN "AuthFailed"
    ELSE IF ~FeHasLock THEN "NotInitialized"
    ELSE IF FeGetLock.employer # employer THEN "Unauthorized"
    ELSE IF ~FeGetLock.funds_released THEN "AlreadyReleased"
    ELSE IF FeGetLock.yield_claimed THEN "AlreadyClaimed"
    ELSE "Ok"

\* The outcomes of the employer_share computation of claim_yield.
FeEmployerShares(lock) ==
    {IF m = None THEN None ELSE Some(TruncDiv(m[1], FE_SHARE_DIVISOR)) :
        m \in unchecked_mul(lock.yield_earned, FE_SHARE_PERCENT)}

FeClaimResult(invoker, employer, token, share) ==
    LET guard == FeClaimGuard(invoker, employer) IN
    IF guard # "Ok" THEN guard
    ELSE IF share = None THEN "ArithmeticTrap"
    ELSE IF ~TransferOk(bal[token], Contract, share[1]) THEN "TokenTrap"
    ELSE "Ok"

fe_claim_yield(invoker, employer, token, share) ==
    IF FeClaimResult(invoker, employer, token, share) # "Ok"
    THEN UNCHANGED vars
    ELSE /\ bal' = [bal EXCEPT ![token] =
                        Transfer(@, Contract, employer, share[1])]
         /\ locks' = [locks EXCEPT ![FeKey] = [@ EXCEPT !.yield_claimed = TRUE]]
         /\ UNCHANGED <<config, nextBatchId, now>>

\* ---- get_status, calculate_current_yield (frontend)
FeStatusResult == IF FeHasLock THEN "Ok" ELSE "NotInitialized"

fe_get_status == UNCHANGED vars

\* Faulty variant: the days are counted up to the payout date, not up to now.
FeCurrentYields_ToPayoutDate(lock) ==
    LET days_locked == (lock.payout_date - lock.lock_date) \div SECS_PER_DAY
        times4 == unchecked_mul(lock.total_amount, APY_PERCENT)
        timesDays == UNION {IF m = None THEN {None}
                            ELSE unchecked_mul(m[1], days_locked) : m \in times4}
    IN  {IF m = None THEN None ELSE Some(TruncDiv(m[1], YIELD_DIVISOR)) :
            m \in timesDays}

\* The outcomes of the yield computation of calculate_current_yield.
FeCurrentYields(lock) ==
    LET days_locked == (now - lock.lock_date) \div SECS_PER_DAY
        times4 == unchecked_mul(lock.total_amount, APY_PERCENT)
        timesDays == UNION {IF m = None THEN {None}
                            ELSE unchecked_mul(m[1], days_locked) : m \in times4}
    IN  {IF m = None THEN None ELSE Some(TruncDiv(m[1], YIELD_DIVISOR)) :
            m \in timesDays}

FeCurrentYieldResult(yield) ==
    IF ~FeHasLock THEN "NotInitialized"
    ELSE IF yield = None THEN "ArithmeticTrap"
    ELSE "Ok"

fe_calculate_current_yield == UNCHANGED vars

\* ---- specification of the frontend variant
FeInitialize == \E blend_pool \in BlendPools : fe_initialize(blend_pool)

FeLockPayroll ==
    \E invoker \in Invokers, employer \in Employers, token \in FeTokens,
       amount \in FeAmounts, offset \in FePayoutOffsets :
        fe_lock_payroll(invoker, employer, token, amount, now + offset)

FeReleaseToSdp ==
    \E sdp \in SdpTargets, token \in FeTokens :
        IF FeHasLock
        THEN \E yield \in FeReleaseYields(FeGetLock) :
                fe_release_to_sdp(sdp, token, yield)
        ELSE fe_release_to_sdp(sdp, token, None)

FeClaimYield ==
    \E invoker \in Invokers, employer \in Employers, token \in FeTokens :
        IF FeHasLock
        THEN \E share \in FeEmployerShares(FeGetLock) :
                fe_claim_yield(invoker, employer, token, share)
        ELSE fe_claim_yield(invoker, employer, token, None)

FeGetStatus == fe_get_status

FeCalculateCurrentYield == fe_calculate_current_yield

FeNext ==
    \/ FeTick
    \/ FeDonate
    \/ FeInitialize
    \/ FeLockPayroll
    \/ FeReleaseToSdp
    \/ FeClaimYield
    \/ FeGetStatus
    \/ FeCalculateCurrentYield

SpecFrontend == FeInit /\ [][FeNext]_vars

\* ------------------------------------------------------------- properties
Keys == DOMAIN locks
Released(k) == locks[k].funds_released
Claimed(k) == locks[k].yield_claimed
KeysOf(employer) == {k \in Keys : k[1] = employer}
\* The record as lock_payroll leaves it: Locked, nothing earned.
Fresh(lock) ==
    ~lock.funds_released /\ ~lock.yield_claimed /\ lock.yield_earned = 0
\* The keys a step creates, and the keys whose record a step changes.
Created == DOMAIN locks' \ DOMAIN locks
Changed == {k \in DOMAIN locks \cap DOMAIN locks' : locks'[k] # locks[k]}

\* C1 (state part): a released, unclaimed record passes every guard of
\* claim_yield for its employer, so the call pays unless the token contract
\* rejects the transfer; a claimed record answers AlreadyClaimed.
C1_ClaimResults ==
    \A k \in Keys :
        /\ (Released(k) /\ ~Claimed(k)) =>
              ClaimResult(k[1], k[1], k[2]) =
                  IF TransferOk(bal, Contract, locks[k].yield_earned)
                  THEN "Ok" ELSE "TokenTrap"
        /\ Claimed(k) => ClaimResult(k[1], k[1], k[2]) = "AlreadyClaimed"

\* C1 (step part): the step that sets yield_claimed acts on a released record,
\* moves exactly its stored yield_earned from the contract to the employer and
\* changes nothing else of the record; and the contract pays an employer in no
\* other step, so a record is paid at most once.
C1_ClaimSteps ==
    /\ \A k \in Changed :
          (~locks[k].yield_claimed /\ locks'[k].yield_claimed) =>
              /\ locks[k].funds_released
              /\ locks'[k] = [locks[k] EXCEPT !.yield_claimed = TRUE]
              /\ bal' = Transfer(bal, Contract, k[1], locks[k].yield_earned)
              /\ Changed = {k}
    /\ \A k \in Keys : locks[k].yield_claimed => (k \in DOMAIN locks' /\ locks'[k] = locks[k])
    /\ (\E e \in Employers : bal'[e] > bal[e]) =>
          \E k \in Changed : ~locks[k].yield_claimed /\ locks'[k].yield_claimed

C2_ReleaseResults ==
    \A k \in Keys : Released(k) =>
        \A w \in WithdrawOutcomes : ReleaseResult(k[1], k[2], w) = "AlreadyReleased"

\* C2 (step part): a released record keeps funds_released and yield_earned, and
\* tokens leave the vault or reach the SDP wallet only in the step that sets
\* funds_released of exactly one record, which sends that record's principal.
C2_ReleaseSteps ==
    /\ \A k \in Keys : locks[k].funds_released =>
          /\ k \in DOMAIN locks'
          /\ locks'[k].funds_released
          /\ locks'[k].yield_earned = locks[k].yield_earned
    /\ ((\E v \in VaultAddrs : bal'[v] < bal[v]) \/ bal'[SdpWallet] # bal[SdpWallet]) =>
          \E k \in Changed :
              /\ ~locks[k].funds_released /\ locks'[k].funds_released
              /\ Changed = {k}
              /\ bal'[SdpWallet] = bal[SdpWallet] + locks[k].total_amount

\* C2: release never double-executes: after a successful release every later
\* release of the record fails with AlreadyReleased, leaves yield_earned and
\* funds_released unchanged, withdraws nothing and moves no principal.
C2_ReleaseOnce == [] C2_ReleaseResults /\ [][C2_ReleaseSteps]_vars

\* C2 witness: a record has been released and its principal sent out.
C2_Witness ==
    \E k \in Keys : Released(k) /\ locks[k].total_amount > 0 /\ bal[SdpWallet] > 0

\* C3: no premature release: while now < payout_date every release of the
\* record fails with PayoutDateNotReached, and a record with funds_released
\* was released at a time >= its payout_date (the clock never goes back).
C3_NoPrematureRelease ==
    \A k \in Keys :
        /\ now < locks[k].payout_date =>
              \A w \in WithdrawOutcomes :
                  ReleaseResult(k[1], k[2], w) = "PayoutDateNotReached"
        /\ Released(k) => now >= locks[k].payout_date
        /\ now < locks[k].payout_date => ~Released(k)

\* C3 witness: a record is locked and not yet mature, so a release now is
\* premature.
C3_Witness ==
    \E k \in Keys : now < locks[k].payout_date /\ locks[k].total_amount > 0

\* C4 (state part): the batch id the next lock returns to an employer is the
\* number of that employer's records, that is of its earlier successful locks.
C4_NextIdCountsLocks ==
    \A e \in Employers :
        /\ LockBatchId(e) = Cardinality(KeysOf(e))
        /\ GetNextBatchId(e) = Cardinality(KeysOf(e))

\* C4 (step part): a successful lock stores its record under the id it
\* returns, raises the employer's counter by exactly 1 and leaves a record
\* that get_status reports as Locked with nothing earned; no other step
\* changes a counter.
C4_LockSteps ==
    /\ \A k \in Created :
          /\ k[2] = LockBatchId(k[1])
          /\ nextBatchId'[k[1]] = LockBatchId(k[1]) + 1
          /\ Fresh(locks'[k])
          /\ Created = {k}
    /\ \A e \in Employers :
          (\A k \in Created : k[1] # e) =>
              /\ (e \in DOMAIN nextBatchId') = (e \in DOMAIN nextBatchId)
              /\ e \in DOMAIN nextBatchId => nextBatchId'[e] = nextBatchId[e]

\* C4: each successful lock returns the employer's number of earlier successful
\* locks (0, 1, 2, ...), the counter grows by exactly 1 per successful lock and
\* by 0 otherwise, and the new record reads released = false, claimed = false,
\* yield_earned = 0.
C4_BatchIdSequence == [] C4_NextIdCountsLocks /\ [][C4_LockSteps]_vars

\* C4 witness: an employer has locked twice and holds batches 0 and 1.
C4_Witness ==
    \E e \in Employers : HasLock(e, 0) /\ HasLock(e, 1) /\ GetNextBatchId(e) = 2

\* C5 (as claimed): claim_yield invoked by an identity other than the record's
\* employer fails with Unauthorized, in every state of the record.
C5_NonOwnerUnauthorized ==
    \A k \in Keys : \A invoker \in Invokers :
        invoker # locks[k].employer =>
            ClaimResult(invoker, k[1], k[2]) = "Unauthorized"

Max0(x) == IF x > 0 THEN x ELSE 0

\* C6 (as claimed): the yield_earned a successful release stores is
\* max(0, total_withdrawn - total_amount), total_withdrawn being the first
\* amount the vault's withdraw returned, and so is never negative.
C6_ReleaseStep ==
    \A k \in Changed :
        (~locks[k].funds_released /\ locks'[k].funds_released) =>
            /\ locks'[k].yield_earned >= 0
            /\ \A w \in WithdrawOutcomes :
                  release_to_sdp(k[1], k[2], SdpWallet, w) =>
                      locks'[k].yield_earned =
                          Max0(unwrap_or(w.amounts, 0) - locks[k].total_amount)

C6_YieldIsClampedDifference == [][C6_ReleaseStep]_vars

\* C7: for every record, funds_released = false implies yield_earned = 0 and
\* yield_claimed = false, and yield_claimed = true implies funds_released = true.
C7_FlagInvariant ==
    \A k \in Keys :
        /\ ~Released(k) => (locks[k].yield_earned = 0 /\ ~Claimed(k))
        /\ Claimed(k) => Released(k)

\* C7 witness: one record is claimed while another is still locked.
C7_Witness ==
    \E k1 \in Keys, k2 \in Keys : Claimed(k1) /\ Released(k1) /\ ~Released(k2)

\* C8 (step part): records are created only by a lock step, as Locked; no
\* record disappears; a flag never goes back to false; a record moves one
\* stage at a time, Locked -> Released -> Claimed; a Claimed record never
\* changes again.
C8_LifecycleSteps ==
    /\ DOMAIN locks \subseteq DOMAIN locks'
    /\ \A k \in Created :
          /\ Fresh(locks'[k])
          /\ \E invoker \in Invokers, amount \in Amounts, payout_date \in PayoutDates :
                \E deposit \in DepositOutcomes(amount) :
                    lock_payroll(invoker, k[1], amount, payout_date, deposit)
    /\ \A k \in Keys :
          /\ locks[k].funds_released => locks'[k].funds_released
          /\ locks[k].yield_claimed => locks'[k].yield_claimed
          /\ (~locks[k].funds_released /\ locks'[k].funds_released) =>
                ~locks'[k].yield_claimed
          /\ (~locks[k].yield_claimed /\ locks'[k].yield_claimed) =>
                locks[k].funds_released
          /\ locks[k].yield_claimed => locks'[k] = locks[k]

\* C8: per record the lifecycle is exactly Locked -> Released -> Claimed; lock
\* alone creates records, flags never regress, Claimed is terminal.
C8_Lifecycle == [][C8_LifecycleSteps]_vars

\* C8 witness: a record has gone through the whole lifecycle and paid a yield.
C8_Witness ==
    \E k \in Keys : Released(k) /\ Claimed(k) /\ locks[k].yield_earned = 2

\* C9 (state part): an employer's records are exactly the batches below its
\* counter, so the key the next lock writes is absent.
C9_NextKeyAbsent ==
    \A e \in Employers :
        /\ ~HasLock(e, LockBatchId(e))
        /\ KeysOf(e) = {<<e, i>> : i \in 0 .. (GetNextBatchId(e) - 1)}

\* C9 (step part): a step that advances a counter (a successful lock) creates
\* exactly the key it returns, which was absent, and changes no existing
\* record; records are created in no other step, and no existing record is
\* ever replaced by a new one.
C9_LockSteps ==
    /\ nextBatchId' # nextBatchId =>
          \E e \in Employers :
              /\ ~HasLock(e, LockBatchId(e))
              /\ Created = {<<e, LockBatchId(e)>>}
              /\ Changed = {}
    /\ Created # {} => nextBatchId' # nextBatchId
    /\ \A k \in Changed : ~Fresh(locks'[k])

\* C9: locks of one employer, each run as one atomic invocation and in any
\* interleaving, never return the same batch id and never overwrite a record.
C9_UniqueBatchIds == [] C9_NextKeyAbsent /\ [][C9_LockSteps]_vars

\* C9 witness: one employer holds two different records under batches 0 and 1.
C9_Witness ==
    \E e \in Employers :
        /\ HasLock(e, 0) /\ HasLock(e, 1)
        /\ GetLock(e, 0).total_amount # GetLock(e, 1).total_amount

\* C10 (as claimed): every lock call, authorised by its employer, whose
\* payout_date is <= now fails with InvalidPayoutDate.
C10_AlwaysInvalidPayoutDate ==
    \A e \in Employers, amount \in Amounts, payout_date \in PayoutDates :
        \A deposit \in DepositOutcomes(amount) :
            payout_date <= now =>
                LockResult(e, e, amount, payout_date, deposit) = "InvalidPayoutDate"

\* C10 (state part, amended): a lock call with payout_date <= now fails: with
\* AuthFailed when the invoker is not the employer, else with InvalidAmount
\* when the amount is negative, else with InvalidPayoutDate.
C10_LockResults ==
    \A invoker \in Invokers, e \in Employers, amount \in Amounts,
       payout_date \in PayoutDates :
        \A deposit \in DepositOutcomes(amount) :
            payout_date <= now =>
                LockResult(invoker, e, amount, payout_date, deposit) =
                    IF invoker # e THEN "AuthFailed"
                    ELSE IF amount < 0 THEN "InvalidAmount"
                    ELSE "InvalidPayoutDate"

\* C10 (step part, amended): no step creates a record whose payout_date is
\* <= now, and a step that creates no record changes no counter and takes no
\* tokens from an employer.
C10_LockSteps ==
    /\ \A k \in Created : locks'[k].payout_date > now
    /\ Created = {} =>
          /\ nextBatchId' = nextBatchId
          /\ \A e \in Employers : bal'[e] >= bal[e]

\* C10 (amended): an authorised lock call with amount >= 0 and payout_date <=
\* now fails with InvalidPayoutDate (with InvalidAmount when amount < 0); in
\* every case it creates no record, leaves the counter unchanged and moves no
\* tokens.
C10_PastPayoutDateRejected == [] C10_LockResults /\ [][C10_LockSteps]_vars

\* C10 witness: the clock has advanced past a lock, so payout dates before
\* and equal to now can be passed to a further lock.
C10_Witness ==
    now = 1 /\ Initialized /\ \E k \in Keys : locks[k].lock_date < now

\* C11 (state part): claim_yield by the employer of an unreleased record
\* answers NotYetReleased, and no invoker's claim of it succeeds.
C11_ClaimResults ==
    \A k \in Keys : ~Released(k) =>
        /\ ClaimResult(k[1], k[1], k[2]) = "NotYetReleased"
        /\ \A invoker \in Invokers : ClaimResult(invoker, k[1], k[2]) # "Ok"

\* C11 (step part): a step that leaves a record unreleased leaves it unchanged,
\* and every step in which an employer receives tokens marks as claimed one
\* record of that employer that was already released.
C11_ClaimSteps ==
    /\ \A k \in Keys :
          (~locks[k].funds_released /\ ~locks'[k].funds_released) =>
              locks'[k] = locks[k]
    /\ \A e \in Employers : bal'[e] > bal[e] =>
          \E k \in Changed :
              /\ k[1] = e
              /\ locks[k].funds_released
              /\ locks'[k].yield_claimed

\* C11: claim_yield on an existing record whose funds_released is false fails
\* with NotYetReleased, transfers nothing and leaves the record unchanged; no
\* yield leaves custody for a record that has not been released.
C11_NotYetReleased == [] C11_ClaimResults /\ [][C11_ClaimSteps]_vars

\* C11 witness: one record is unreleased although mature, while the contract
\* holds the unclaimed yield of another record.
C11_Witness ==
    \E k1 \in Keys, k2 \in Keys :
        /\ ~Released(k1) /\ now >= locks[k1].payout_date
        /\ Released(k2) /\ ~Claimed(k2) /\ bal[Contract] > 0

\* C12 (state part): for every invoker, release_to_sdp of a mature, unreleased
\* record passes every guard: it succeeds unless the vault's withdraw or the
\* token transfer of the principal traps.
C12_ReleaseResults ==
    \A k \in Keys : (now >= locks[k].payout_date /\ ~Released(k)) =>
        \A invoker \in ReleaseInvokers, w \in WithdrawOutcomes :
            LET got == VaultPays(w.amounts)
                vault == config["DefindexPoolAddress"]
            IN  /\ ReleaseAuthorized(invoker, k[1])
                /\ ReleaseResult(k[1], k[2], w) =
                      IF w.trap \/ bal[vault] < got THEN "VaultTrap"
                      ELSE IF bal[Contract] + got < locks[k].total_amount
                      THEN "TokenTrap"
                      ELSE "Ok"

\* C12 (step part): the step that sets funds_released of a record is a
\* release_to_sdp of that record; it takes the record's total_amount out of
\* the contract's balance and adds it to the balance of the address given as
\* sdp_wallet_address, on top of what the vault paid in; no other account
\* changes.
C12_ReleaseSteps ==
    \A k \in Changed : (~locks[k].funds_released /\ locks'[k].funds_released) =>
        /\ \E sdp \in AnyTargets, w \in WithdrawOutcomes :
              release_to_sdp(k[1], k[2], sdp, w)
        /\ \A sdp \in AnyTargets, w \in WithdrawOutcomes :
              release_to_sdp(k[1], k[2], sdp, w) =>
                  LET p == locks[k].total_amount
                      got == VaultPays(w.amounts)
                      vault == config["DefindexPoolAddress"]
                      In(a) == (IF a = Contract THEN got ELSE 0)
                               + (IF a = sdp THEN p ELSE 0)
                      Out(a) == (IF a = vault THEN got ELSE 0)
                                + (IF a = Contract THEN p ELSE 0)
                  IN  \A a \in Accounts : bal'[a] = bal[a] + In(a) - Out(a)

\* C12: release needs no authorisation by the employer: invoked by anyone on
\* an existing record with now >= payout_date and funds_released = false it
\* succeeds when the vault withdraw and the token transfer succeed, moves
\* exactly total_amount from the contract to the sdp_wallet_address of that
\* call and sets funds_released.
C12_ReleaseByAnyone == [] C12_ReleaseResults /\ [][C12_ReleaseSteps]_vars

\* C12 witness: a record's principal has been released to an address other
\* than the SDP wallet: to the other employer.
C12_Witness ==
    \E k \in Keys, e \in Employers :
        /\ e # k[1] /\ KeysOf(e) = {}
        /\ Released(k) /\ locks[k].total_amount = 1
        /\ bal[e] = InitialBalance[e] + 1

\* The vault's deposit failing.
DepositTrap == [trap |-> TRUE, shares |-> 0]

\* C13 (state part): a lock_payroll whose deposit fails never succeeds; when
\* its guards pass and the employer's transfer is accepted, it ends in the
\* vault's trap, which aborts the invocation.
C13_LockResults ==
    \A invoker \in Invokers, e \in Employers, amount \in Amounts,
       payout_date \in PayoutDates :
        /\ LockResult(invoker, e, amount, payout_date, DepositTrap) # "Ok"
        /\ (LockGuard(invoker, e, amount, payout_date) = "Ok"
             /\ TransferOk(bal, e, amount) /\ Initialized) =>
                LockResult(invoker, e, amount, payout_date, DepositTrap) = "VaultTrap"

\* C13 (step part): there is no half-completed lock.  A step in which tokens
\* leave an employer creates exactly one record of that employer, holding that
\* amount, bumps its counter, and passes the amount on to the vault; a step
\* that creates no record changes no counter, takes nothing from an employer
\* and adds to the contract's balance only what a vault pays out.
C13_LockSteps ==
    /\ \A e \in Employers : bal'[e] < bal[e] =>
          \E k \in Created :
              /\ k[1] = e
              /\ Created = {k}
              /\ locks'[k].total_amount = bal[e] - bal'[e]
              /\ nextBatchId'[e] = k[2] + 1
    /\ \A k \in Created :
          LET vault == config["DefindexPoolAddress"] IN
          /\ bal'[k[1]] = bal[k[1]] - locks'[k].total_amount
          /\ bal'[vault] = bal[vault] + locks'[k].total_amount
          /\ bal'[Contract] = bal[Contract]
    /\ Created = {} =>
          /\ nextBatchId' = nextBatchId
          /\ \A e \in Employers : bal'[e] >= bal[e]
          /\ bal'[Contract] > bal[Contract] => \E v \in VaultAddrs : bal'[v] < bal[v]

\* C13: if the vault deposit of lock_payroll fails the whole lock fails
\* atomically: no record is persisted, the employer's counter is unchanged and
\* the employer-to-contract transfer made earlier in the call is not
\* observable afterwards.
C13_LockAtomicOnDepositFailure == [] C13_LockResults /\ [][C13_LockSteps]_vars

\* C13 witness: an employer that already holds a batch can pay a further
\* lock whose guards pass, so that lock reaches the vault's deposit and fails
\* there.
C13_Witness ==
    \E e \in Employers :
        /\ GetNextBatchId(e) = 1
        /\ bal[e] >= 1
        /\ Cardinality(DOMAIN locks) < MaxLocks
        /\ \E payout_date \in PayoutDates :
              LockResult(e, e, 1, payout_date, DepositTrap) = "VaultTrap"

\* C14 (as claimed, on the frontend variant's initialize): once a
\* configuration exists every initialize fails, committing nothing, and the
\* stored address keeps its value through every later operation: no step
\* changes an existing configuration.
C14_FeConfigured == "BlendPoolAddress" \in DOMAIN config

C14_FeConfigSteps == C14_FeConfigured => config' = config

C14_InitializeOnce == [][C14_FeConfigSteps]_vars

\* C14 (the payday variant's initialize): once DefindexPoolAddress exists
\* initialize answers AlreadyInitialized and no step changes the configuration.
C14_PaydayConfigSteps == Initialized => config' = config

C14_PaydayInitializeOnce ==
    /\ [] (Initialized => (InitializeResult = "AlreadyInitialized" /\ HasToken))
    /\ [][C14_PaydayConfigSteps]_vars

\* The errors of the contract's Error enum.
TaxonomyErrors ==
    {"AlreadyInitialized", "NotInitialized", "InvalidAmount", "InvalidPayoutDate",
     "PayoutDateNotReached", "AlreadyReleased", "NotYetReleased",
     "AlreadyClaimed", "Unauthorized", "InsufficientFunds"}

\* C15 (state part): whenever initialize, lock_payroll, release_to_sdp or
\* claim_yield returns an error of the taxonomy, it has made no transfer, no
\* vault call and no write before returning.
C15_NoEffectBeforeError ==
    /\ InitializeResult \in TaxonomyErrors => InitializeEffects = {}
    /\ \A invoker \in Invokers, e \in Employers, amount \in Amounts,
          payout_date \in PayoutDates :
           \A deposit \in DepositOutcomes(amount) :
               LockResult(invoker, e, amount, payout_date, deposit)
                       \in TaxonomyErrors =>
                   LockEffects(invoker, e, amount, payout_date, deposit) = {}
    /\ \A e \in Employers, batch_id \in BatchIds, w \in WithdrawOutcomes :
           ReleaseResult(e, batch_id, w) \in TaxonomyErrors =>
               ReleaseEffects(e, batch_id, w) = {}
    /\ \A invoker \in Invokers, e \in Employers, batch_id \in BatchIds :
           ClaimResult(invoker, e, batch_id) \in TaxonomyErrors =>
               ClaimEffects(invoker, e, batch_id) = {}

\* C15 (step part): a step that changes a balance, a counter or the
\* configuration is a successful call: it writes the first configuration,
\* creates a record or advances a flag of one.  A failed call does none of
\* these, so it leaves every balance, counter and record as it was.
C15_EffectSteps ==
    (bal' # bal \/ nextBatchId' # nextBatchId \/ config' # config) =>
        \/ ~Initialized /\ locks' = locks /\ bal' = bal
        \/ Created # {} /\ config' = config
        \/ /\ config' = config
           /\ \E k \in Changed :
                 \/ ~locks[k].funds_released /\ locks'[k].funds_released
                 \/ ~locks[k].yield_claimed /\ locks'[k].yield_claimed

\* C15: every guard failure aborts the operation before any mutation or
\* external transfer: when a call returns an error of the taxonomy, records,
\* counters, configuration and balances are what they were before the call.
C15_GuardFailureChangesNothing ==
    [] C15_NoEffectBeforeError /\ [][C15_EffectSteps]_vars

\* C15 witness: the contract holds an unclaimed yield and a mature unreleased
\* record, so that a transfer or a withdraw would go through if a failing
\* claim_yield or release_to_sdp attempted one before its guards.
C15_Witness ==
    \E k1 \in Keys, k2 \in Keys :
        /\ Released(k1) /\ ~Claimed(k1) /\ locks[k1].yield_earned > 0
        /\ bal[Contract] >= locks[k1].yield_earned
        /\ ClaimResult(k1[1], k2[1], k2[2]) \in TaxonomyErrors
        /\ \A w \in WithdrawOutcomes :
              ReleaseResult(k1[1], k1[2], w) = "AlreadyReleased"

\* The first violated precondition of each operation, in the order of the
\* design: lock (amount, maturity), release (record, maturity, released),
\* claimYield (record, payer, released, claimed).  "None" when all hold.
C16_LockFirstViolated(amount, payout_date) ==
    IF amount < 0 THEN "InvalidAmount"
    ELSE IF payout_date <= now THEN "InvalidPayoutDate"
    ELSE "None"

C16_ReleaseFirstViolated(e, batch_id) ==
    IF <<e, batch_id>> \notin Keys THEN "NotInitialized"
    ELSE IF now < locks[<<e, batch_id>>].payout_date THEN "PayoutDateNotReached"
    ELSE IF locks[<<e, batch_id>>].funds_released THEN "AlreadyReleased"
    ELSE "None"

C16_ClaimFirstViolated(e, batch_id) ==
    IF <<e, batch_id>> \notin Keys THEN "NotInitialized"
    ELSE IF locks[<<e, batch_id>>].employer # e THEN "Unauthorized"
    ELSE IF ~locks[<<e, batch_id>>].funds_released THEN "NotYetReleased"
    ELSE IF locks[<<e, batch_id>>].yield_claimed THEN "AlreadyClaimed"
    ELSE "None"

\* C16: guards are evaluated in the fixed order of the design: a call
\* authorised as the operation requires, with a violated precondition,
\* reports the error of the first violated one (lock: InvalidAmount before
\* InvalidPayoutDate; release: NotInitialized, PayoutDateNotReached,
\* AlreadyReleased; claimYield: NotInitialized, Unauthorized, NotYetReleased,
\* AlreadyClaimed), whatever the vault would answer; with none violated it
\* reports none of these errors.
C16_GuardOrder ==
    /\ \A e \in Employers, amount \in Amounts, payout_date \in PayoutDates :
          \A deposit \in DepositOutcomes(amount) :
              IF C16_LockFirstViolated(amount, payout_date) # "None"
              THEN LockResult(e, e, amount, payout_date, deposit) =
                       C16_LockFirstViolated(amount, payout_date)
              ELSE LockResult(e, e, amount, payout_date, deposit)
                       \notin {"InvalidAmount", "InvalidPayoutDate"}
    /\ \A e \in Employers, batch_id \in BatchIds, w \in WithdrawOutcomes :
          IF C16_ReleaseFirstViolated(e, batch_id) # "None"
          THEN ReleaseResult(e, batch_id, w) = C16_ReleaseFirstViolated(e, batch_id)
          ELSE ReleaseResult(e, batch_id, w) \notin TaxonomyErrors
    /\ \A e \in Employers, batch_id \in BatchIds :
          IF C16_ClaimFirstViolated(e, batch_id) # "None"
          THEN ClaimResult(e, e, batch_id) = C16_ClaimFirstViolated(e, batch_id)
          ELSE ClaimResult(e, e, batch_id) \notin TaxonomyErrors

\* C16 witness: the clock has advanced, so a lock can violate the amount and
\* the maturity precondition at once; one record is claimed, another is
\* still locked, and a third key is missing.
C16_Witness ==
    /\ now > 0
    /\ C16_LockFirstViolated(-1, now) = "InvalidAmount"
    /\ \E k1 \in Keys, k2 \in Keys :
          /\ Claimed(k1) /\ ~Released(k2)
          /\ \E e \in Employers, b \in BatchIds : <<e, b>> \notin Keys

\* C17 (state part): every record has payout_date > lock_date and
\* total_amount >= 0, and a lock_payroll with a negative amount, authorised
\* by its employer, answers InvalidAmount whatever its payout date.
C17_RecordsWellFormed ==
    /\ \A k \in Keys :
          /\ locks[k].payout_date > locks[k].lock_date
          /\ locks[k].total_amount >= 0
    /\ \A e \in Employers, amount \in Amounts, payout_date \in PayoutDates :
          amount < 0 =>
              \A deposit \in DepositOutcomes(amount) :
                  LockResult(e, e, amount, payout_date, deposit) = "InvalidAmount"

\* C17 (step part): a record is created at the current time with a later
\* payout date and a non-negative amount, and neither date nor the amount of
\* an existing record changes.
C17_RecordSteps ==
    /\ \A k \in Created :
          /\ locks'[k].lock_date = now
          /\ locks'[k].payout_date > now
          /\ locks'[k].total_amount >= 0
    /\ \A k \in Changed :
          /\ locks'[k].lock_date = locks[k].lock_date
          /\ locks'[k].payout_date = locks[k].payout_date
          /\ locks'[k].total_amount = locks[k].total_amount

\* C17: in every reachable state every record has payout_date > lock_date
\* and total_amount >= 0; a lock with amount < 0 fails with InvalidAmount
\* and creates no record.
C17_WellFormedRecords == [] C17_RecordsWellFormed /\ [][C17_RecordSteps]_vars

\* C17 witness: records with amount 0 and with a positive amount exist, one
\* of them matured and released, and the clock has passed their lock date.
C17_Witness ==
    \E k1 \in Keys, k2 \in Keys :
        /\ locks[k1].total_amount = 0 /\ locks[k2].total_amount > 0
        /\ Released(k2)
        /\ now > locks[k1].lock_date

\* C18 (as claimed): at a time before the payout date, release_to_sdp called
\* at that time writes a yield_earned, and it is the value
\* calculate_current_yield computes at that time.
C18_PreviewMatchesEarlyRelease ==
    (FeHasLock /\ now < FeGetLock.payout_date) =>
        \E token \in FeTokens, yield \in FeReleaseYields(FeGetLock) :
            /\ FeReleaseResult(token, yield) = "Ok"
            /\ yield \in FeCurrentYields(FeGetLock)

\* C18 (state part, amended): before the payout date release_to_sdp answers
\* PayoutDateNotReached and writes nothing; at every time the computation of
\* calculate_current_yield and that of release_to_sdp have the same outcomes.
C18_SameOutcomes ==
    FeHasLock =>
        /\ now < FeGetLock.payout_date =>
              \A token \in FeTokens, yield \in FeReleaseYields(FeGetLock) :
                  FeReleaseResult(token, yield) = "PayoutDateNotReached"
        /\ FeCurrentYields(FeGetLock) = FeReleaseYields(FeGetLock)

\* C18 (step part, amended): the step that releases the record happens at a
\* time t >= payout_date and writes as yield_earned an outcome of
\* calculate_current_yield at t, which is also the result of the checked
\* computation of the payday variant when that does not overflow; and the
\* record changes only when it is created, released or claimed, so
\* calculate_current_yield changes no field.
C18_PreviewSteps ==
    /\ (FeHasLock /\ ~FeGetLock.funds_released /\ locks'[FeKey].funds_released) =>
          /\ now >= FeGetLock.payout_date
          /\ now' = now
          /\ Some(locks'[FeKey].yield_earned) \in FeCurrentYields(FeGetLock)
          /\ CurrentYield(FeGetLock) # None =>
                CurrentYield(FeGetLock) = Some(locks'[FeKey].yield_earned)
    /\ (FeHasLock /\ locks' # locks) =>
          \/ ~FeGetLock.funds_released /\ locks'[FeKey].funds_released
          \/ ~FeGetLock.yield_claimed /\ locks'[FeKey].yield_claimed

\* C18 (amended): without vault integration, the yield calculate_current_yield
\* computes at a time t >= payout_date, with the simple interest formula
\* total_amount * 4 * days / (365 * 100), days = (t - lock_date) / 86400, is the
\* yield_earned release_to_sdp writes when called at exactly t; before the
\* payout date release_to_sdp fails with PayoutDateNotReached and writes no
\* yield_earned; calculate_current_yield changes no field of the record.
C18_PreviewMatchesRelease == [] C18_SameOutcomes /\ [][C18_PreviewSteps]_vars

\* C18 witness: the record was released a whole number of days and a half
\* after its lock, past its payout date, with a positive yield_earned.
C18_Witness ==
    /\ FeHasLock
    /\ FeGetLock.funds_released
    /\ FeGetLock.yield_earned > 0
    /\ now > FeGetLock.payout_date
    /\ (now - FeGetLock.lock_date) % SECS_PER_DAY # 0

\* The scenario of C19: alice = e1 has locked 1000 of tokenA until 100 days
\* after the lock, and the record was released 365 days after the lock.
C19_Locked ==
    /\ FeHasLock
    /\ FeGetLock.employer = "e1"
    /\ FeGetLock.total_amount = 1000
    /\ FeGetLock.payout_date = FeGetLock.lock_date + 100 * SECS_PER_DAY

C19_ReleaseStep ==
    (/\ C19_Locked
     /\ now = FeGetLock.lock_date + 365 * SECS_PER_DAY
     /\ ~FeGetLock.funds_released /\ locks'[FeKey].funds_released) =>
        locks'[FeKey].yield_earned = 40

\* C19 (as claimed): in the scenario release returns yield_earned = 40; the
\* following claim_yield of alice succeeds and transfers 40 to alice, the
\* full yield; a further claim_yield fails with AlreadyClaimed.
C19_ScenarioPaysFullYield ==
    /\ [] ((C19_Locked /\ FeGetLock.funds_released /\ ~FeGetLock.yield_claimed
             /\ FeGetLock.yield_earned = 40) =>
               \A share \in FeEmployerShares(FeGetLock) :
                   /\ share = Some(40)
                   /\ FeClaimResult("e1", "e1", "tokenA", share) = "Ok")
    /\ [] ((C19_Locked /\ FeGetLock.yield_claimed) =>
               \A share \in FeEmployerShares(FeGetLock) :
                   FeClaimResult("e1", "e1", "tokenA", share) = "AlreadyClaimed")
    /\ [][C19_ReleaseStep]_vars

\* C20 (as claimed): an overflow of total_withdrawn - total_amount in
\* release_to_sdp, when the vault and the token contract accept their calls,
\* and an overflow of total_amount * 4 * days_locked in
\* calculate_current_yield make the operation fail with InsufficientFunds; no
\* substituted value is returned or stored.
C20_OverflowFailsInsufficientFunds ==
    /\ \A k \in Keys, w \in WithdrawOutcomes :
          (/\ ReleaseGuard(k[1], k[2]) = "Ok"
           /\ ~InI128(unwrap_or(w.amounts, 0) - locks[k].total_amount)
           /\ ReleaseResult(k[1], k[2], w) \notin {"VaultTrap", "TokenTrap"}) =>
              ReleaseResult(k[1], k[2], w) = "InsufficientFunds"
    /\ \A k \in Keys :
          LET days_locked == (now - locks[k].lock_date) \div SECS_PER_DAY IN
          (\/ ~InI128(locks[k].total_amount * APY_PERCENT)
           \/ ~InI128(locks[k].total_amount * APY_PERCENT * days_locked)) =>
              CurrentYieldResult(k[1], k[2]) = "InsufficientFunds"

\* The fields of a record that lock_payroll writes and nothing rewrites.
C21_LockFields(lock) ==
    <<lock.employer, lock.total_amount, lock.vault_shares, lock.lock_date,
      lock.payout_date>>

\* C21 (state part): a record is stored under its employer's key, it was locked
\* no later than now, and while it is unreleased its yield_earned is the 0
\* that lock_payroll wrote.
C21_AsLocked ==
    \A k \in Keys :
        /\ locks[k].employer = k[1]
        /\ locks[k].lock_date <= now
        /\ ~Released(k) => locks[k].yield_earned = 0

\* C21 (step part): every existing record keeps employer, total_amount,
\* vault_shares, lock_date and payout_date in every step.  yield_earned keeps
\* its value in every step except the one that sets funds_released, which is
\* a release_to_sdp of that record storing what that call computes; a
\* released record keeps its yield_earned, so it is written at most once; the
\* step that sets yield_claimed and the read-only calls leave it as it is.
C21_FrameSteps ==
    locks' # locks => \A k \in Keys :
        /\ k \in DOMAIN locks'
        /\ C21_LockFields(locks'[k]) = C21_LockFields(locks[k])
        /\ locks[k].funds_released => locks'[k].yield_earned = locks[k].yield_earned
        /\ (~locks[k].funds_released /\ ~locks'[k].funds_released) =>
              locks'[k].yield_earned = locks[k].yield_earned
        /\ (~locks[k].funds_released /\ locks'[k].funds_released) =>
              \E w \in WithdrawOutcomes :
                  /\ ReleaseResult(k[1], k[2], w) = "Ok"
                  /\ release_to_sdp(k[1], k[2], SdpWallet, w)
                  /\ locks'[k].yield_earned = ReleaseReturn(k[1], k[2], w)
        /\ (~locks[k].yield_claimed /\ locks'[k].yield_claimed) =>
              /\ claim_yield(k[1], k[1], k[2])
              /\ locks'[k].yield_earned = locks[k].yield_earned

\* C21: for every record employer, total_amount, vault_shares, lock_date and
\* payout_date keep the values lock_payroll wrote through every later
\* operation, and yield_earned is written at most once, only by the one
\* successful release_to_sdp of that record: claim_yield, get_status and
\* calculate_current_yield never change it.
C21_FieldsFrozen == [] C21_AsLocked /\ [][C21_FrameSteps]_vars

\* C21 witness: a record locked with a positive amount and as many vault
\* shares has been released with a positive yield_earned and then claimed,
\* after the clock had advanced.
C21_Witness ==
    \E k \in Keys :
        /\ locks[k].total_amount > 0 /\ locks[k].vault_shares > 0
        /\ locks[k].lock_date < now
        /\ locks[k].yield_earned > 0
        /\ Claimed(k)

\* The sum of yield_earned over a set of records.
RECURSIVE SumYieldEarned(_)
SumYieldEarned(ks) ==
    IF ks = {} THEN 0
    ELSE LET k == CHOOSE x \in ks : TRUE
         IN  locks[k].yield_earned + SumYieldEarned(ks \ {k})

\* The records whose yield is owed: released and not yet claimed.
Unclaimed == {k \in Keys : Released(k) /\ ~Claimed(k)}

\* C22 (state part, as claimed): the contract's own token balance is the sum
\* of yield_earned over the released, unclaimed records, and is not negative.
C22_CustodyIsOwedYield ==
    /\ bal[Contract] = SumYieldEarned(Unclaimed)
    /\ bal[Contract] >= 0

\* C22 (step part, as claimed): a step that releases or claims one record
\* leaves in the contract's balance at least the yield owed to the other
\* released, unclaimed records.
C22_NoCrossSpending ==
    \A k \in Changed : bal'[Contract] >= SumYieldEarned(Unclaimed \ {k})

\* C22 (as claimed): with a vault that pulls exactly the amount on deposit and
\* pays what it returns on withdraw, after any sequence of lock_payroll,
\* release_to_sdp and claim_yield calls the contract's token balance equals
\* the sum of yield_earned over the released, unclaimed records and is never
\* negative, and the release or claim of one record never spends tokens that
\* back another record's unclaimed yield.
C22_CustodyConservation ==
    [] C22_CustodyIsOwedYield /\ [][C22_NoCrossSpending]_vars

\* C23 (step part): the step that marks a record claimed is a successful
\* claim_yield submitted by the record's employer.
C23_ClaimedByPayer ==
    \A k \in Changed :
        (~locks[k].yield_claimed /\ locks'[k].yield_claimed) =>
            /\ ClaimResult(k[1], k[1], k[2]) = "Ok"
            /\ ClaimOf(k[1], k[2])

\* C23: with a clock that advances, fair scheduling of release_to_sdp and
\* claim_yield and a vault and a token contract that accept the calls that
\* keep to their interface, every locked record is eventually released and
\* every released record is eventually claimed by its employer: no record
\* stays Locked or Released for ever.
C23_EveryRecordIsClaimed ==
    /\ \A batch_id \in BatchIds :
          /\ (HasLock(Payer, batch_id) /\ ~GetLock(Payer, batch_id).funds_released)
               ~> (HasLock(Payer, batch_id) /\ GetLock(Payer, batch_id).funds_released)
          /\ (HasLock(Payer, batch_id) /\ GetLock(Payer, batch_id).funds_released)
               ~> (HasLock(Payer, batch_id) /\ GetLock(Payer, batch_id).yield_claimed)
    /\ [] (\A k \in Keys : k[1] = Payer)
    /\ [][C23_ClaimedByPayer]_vars

\* C23 witness: two records are both claimed, one of them locked with a
\* positive amount and paid a positive yield out of the contract's balance.
C23_Witness ==
    \E k1 \in Keys, k2 \in Keys :
        /\ k1 # k2
        /\ Claimed(k1) /\ Claimed(k2)
        /\ locks[k1].total_amount > 0 /\ locks[k1].yield_earned > 0
        /\ bal[k1[1]] = InitialBalance[k1[1]]

TypeOK ==
    /\ now \in 0 .. MaxTime
    /\ \A k \in DOMAIN locks : k[1] \in Employers /\ k[2] \in BatchIds
    /\ \A a \in Accounts : bal[a] >= 0
====
